---- MODULE Spec2Model ----
(***************************************************************************)
(* Model of the configuration tree of Dadido3/configdb (tree/node.go).     *)
(*                                                                         *)
(* A Go string is a sequence of one-character strings, so that splitting   *)
(* and joining paths are real conversions.  A Node is a Go map, i.e. a     *)
(* reference: the model keeps a heap (a sequence of maps, a Node value     *)
(* holds the index of its map), so that two tree positions holding the     *)
(* same map are visible as such.  The Go result lists of Compare are bags: *)
(* the iteration order of a Go map is unspecified, the multiplicity of a   *)
(* path in a list is kept.                                                 *)
(***************************************************************************)
EXTENDS Integers, Sequences, FiniteSets, Bags, TLC

VARIABLES heap, old, op, steps

vars == <<heap, old, op, steps>>

\* Number of calls of one behaviour.
MaxSteps == 2

----------------------------------------------------------------------------
(* Strings and the path codec *)

PathSeparator == "."

KA == <<"a">>
KB == <<"b">>
KCD == <<"c", "d">>

\* The keys the maps of heap h hold.
Keys(h) == UNION {DOMAIN h[i] : i \in 1..Len(h)}

RECURSIVE splitFrom(_, _, _)
splitFrom(s, cur, acc) ==
    IF s = <<>> THEN Append(acc, cur)
    ELSE IF Head(s) = PathSeparator
         THEN splitFrom(Tail(s), <<>>, Append(acc, cur))
         ELSE splitFrom(Tail(s), Append(cur, Head(s)), acc)

\* split(path): partitions on the separator into segments.
PathSplit(path) == splitFrom(path, <<>>, <<>>)

RECURSIVE PathJoin(_)
\* join(segments...): concatenates the segments with the separator.
PathJoin(elements) ==
    IF elements = <<>> THEN <<>>
    ELSE IF Len(elements) = 1 THEN elements[1]
    ELSE elements[1] \o <<PathSeparator>> \o PathJoin(Tail(elements))

\* The paths CreatePath and Set are called with: "a", "b", "a.b".
WritePaths == {PathJoin(<<KA>>), PathJoin(<<KB>>), PathJoin(<<KA, KB>>)}
\* The paths GetOrError is called with: those, "a.b.a" and "b.a".
ReadPaths == WritePaths \cup {PathJoin(<<KA, KB, KA>>), PathJoin(<<KB, KA>>)}

----------------------------------------------------------------------------
(* Elements *)

NodeV(id) == [kind |-> "Node", v |-> id]
BoolV(b) == [kind |-> "bool", v |-> b]
StringV(s) == [kind |-> "string", v |-> s]
IntV(i) == [kind |-> "int", v |-> i]
FloatV(f) == [kind |-> "float64", v |-> f]
NumberV(tag, x) == [kind |-> "Number", v |-> <<tag, x>>]
ArrayV(kind, elems) == [kind |-> kind, v |-> elems]
NilV == [kind |-> "nil", v |-> 0]

NumericKinds == {"int", "float64"}
ArrayKinds == {"[]Node", "[]bool", "[]string", "[]Number"}

\* Number construction: an integer input is stored as int64, a floating
\* input as float64.
NumberCreate(v) ==
    IF v.kind = "int" THEN NumberV("int64", v.v) ELSE NumberV("float64", v.v)

EmptyNode == [k \in {} |-> NilV]

Put(m, k, v) == [x \in DOMAIN m \cup {k} |-> IF x = k THEN v ELSE m[x]]

NoErr == [type |-> "nil", path |-> <<>>, actual |-> "", expected |-> ""]
ErrPathInsideValue(path) ==
    [type |-> "ErrPathInsideValue", path |-> path, actual |-> "", expected |-> ""]
ErrElementNotFound(path) ==
    [type |-> "ErrElementNotFound", path |-> path, actual |-> "", expected |-> ""]
ErrUnexpectedType(path, actual, expected) ==
    [type |-> "ErrUnexpectedType", path |-> path, actual |-> actual, expected |-> expected]

----------------------------------------------------------------------------
(* CreatePath, Set, GetOrError *)

RECURSIVE createPathLoopFresh(_, _, _)
\* createPathLoop with the type assertion of the existing child lost: every
\* child on the path is overwritten by a new Node.
createPathLoopFresh(h, node, elements) ==
    IF elements = <<>> THEN [heap |-> h, node |-> node]
    ELSE createPathLoopFresh(
             Append([h EXCEPT ![node] = Put(@, Head(elements), NodeV(Len(h) + 1))], EmptyNode),
             Len(h) + 1, Tail(elements))

RECURSIVE createPathLoop(_, _, _)
createPathLoop(h, node, elements) ==
    IF elements = <<>> THEN [heap |-> h, node |-> node]
    ELSE LET e == Head(elements)
             tempNode == Len(h) + 1
         IN  IF e \notin DOMAIN h[node]
             THEN createPathLoop(Append([h EXCEPT ![node] = Put(@, e, NodeV(tempNode))], EmptyNode),
                                 tempNode, Tail(elements))
             ELSE IF h[node][e].kind # "Node"
                  THEN createPathLoop(Append([h EXCEPT ![node] = Put(@, e, NodeV(tempNode))], EmptyNode),
                                      tempNode, Tail(elements))
                  ELSE createPathLoop(h, h[node][e].v, Tail(elements))

CreatePath(h, n, path) == createPathLoop(h, n, PathSplit(path))

\* setStore assigning into the receiver instead of the node CreatePath returned.
setStoreInRoot(h, n, path, newElement) ==
    LET pathElements == PathSplit(path)
        lastElement == pathElements[Len(pathElements)]
        created == IF Len(pathElements) > 1
                   THEN CreatePath(h, n, PathJoin(SubSeq(pathElements, 1, Len(pathElements) - 1)))
                   ELSE [heap |-> h, node |-> n]
    IN  [heap |-> [created.heap EXCEPT ![n] = Put(@, lastElement, newElement)],
         err |-> NoErr]

setStore(h, n, path, newElement) ==
    LET pathElements == PathSplit(path)
        lastElement == pathElements[Len(pathElements)]
        created == IF Len(pathElements) > 1
                   THEN CreatePath(h, n, PathJoin(SubSeq(pathElements, 1, Len(pathElements) - 1)))
                   ELSE [heap |-> h, node |-> n]
    IN  [heap |-> [created.heap EXCEPT ![created.node] = Put(@, lastElement, newElement)],
         err |-> NoErr]

\* Set with the type switch after the path has been created.
SetCreateFirst(h, n, path, element) ==
    LET pathElements == PathSplit(path)
        created == IF Len(pathElements) > 1
                   THEN CreatePath(h, n, PathJoin(SubSeq(pathElements, 1, Len(pathElements) - 1)))
                   ELSE [heap |-> h, node |-> n]
        lastElement == pathElements[Len(pathElements)]
        store(e) == [heap |-> [created.heap EXCEPT ![created.node] = Put(@, lastElement, e)],
                     err |-> NoErr]
    IN  IF element.kind \in {"Node", "bool", "string"} THEN store(element)
        ELSE IF element.kind \in NumericKinds THEN store(NumberCreate(element))
        ELSE IF element.kind \in ArrayKinds THEN store(element)
        ELSE [heap |-> created.heap, err |-> ErrUnexpectedType(<<>>, element.kind, "")]

Set(h, n, path, element) ==
    IF element.kind \in {"Node", "bool", "string"} THEN setStore(h, n, path, element)
    ELSE IF element.kind \in NumericKinds THEN setStore(h, n, path, NumberCreate(element))
    ELSE IF element.kind \in ArrayKinds THEN setStore(h, n, path, element)
    ELSE [heap |-> h, err |-> ErrUnexpectedType(<<>>, element.kind, "")]

RECURSIVE getLoopSwapped(_, _, _, _)
\* getLoop with the two errors exchanged.
getLoopSwapped(h, inter, elements, path) ==
    IF elements = <<>> THEN [val |-> inter, err |-> NoErr]
    ELSE IF inter.kind # "Node" THEN [val |-> NilV, err |-> ErrElementNotFound(path)]
    ELSE IF Head(elements) \notin DOMAIN h[inter.v]
         THEN [val |-> NilV, err |-> ErrPathInsideValue(path)]
         ELSE getLoopSwapped(h, h[inter.v][Head(elements)], Tail(elements), path)

RECURSIVE getLoop(_, _, _, _)
getLoop(h, inter, elements, path) ==
    IF elements = <<>> THEN [val |-> inter, err |-> NoErr]
    ELSE IF inter.kind # "Node" THEN [val |-> NilV, err |-> ErrPathInsideValue(path)]
    ELSE IF Head(elements) \notin DOMAIN h[inter.v]
         THEN [val |-> NilV, err |-> ErrElementNotFound(path)]
         ELSE getLoop(h, h[inter.v][Head(elements)], Tail(elements), path)

GetOrError(h, n, path) == getLoop(h, NodeV(n), PathSplit(path), path)

----------------------------------------------------------------------------
(* Compare *)

IsNode(v) == v.kind = "Node"

RECURSIVE equalValue(_, _, _), equalMap(_, _, _)
\* cmp.Equal: same dynamic type and deeply equal content; a map is compared
\* by its entries, a slice element by element.
equalValue(h, x, y) ==
    /\ x.kind = y.kind
    /\ IF x.kind = "Node" THEN equalMap(h, h[x.v], h[y.v])
       ELSE IF x.kind = "[]Node"
            THEN /\ Len(x.v) = Len(y.v)
                 /\ \A i \in 1..Len(x.v) : equalMap(h, h[x.v[i]], h[y.v[i]])
            ELSE x.v = y.v
equalMap(h, m1, m2) ==
    /\ DOMAIN m1 = DOMAIN m2
    /\ \A k \in DOMAIN m1 : equalValue(h, m1[k], m2[k])

Lists(m, a, r) == [modified |-> m, added |-> a, removed |-> r]
NoLists == Lists(EmptyBag, EmptyBag, EmptyBag)
AppendLists(x, y) ==
    Lists(x.modified (+) y.modified, x.added (+) y.added, x.removed (+) y.removed)
One(path) == SetToBag({path})

RECURSIVE compare(_, _, _, _), compareFound(_, _, _, _, _), compareOld(_, _, _, _, _),
          compareNew(_, _, _, _, _)

\* compareFound reporting a difference where cmp.Equal holds.
compareFoundInverted(h, v, vNew, prefix, k) ==
    LET sub == prefix \o k \o <<PathSeparator>>
    IN  IF IsNode(v) /\ IsNode(vNew) THEN compare(h, h[v.v], h[vNew.v], sub)
        ELSE IF IsNode(v)
        THEN Lists(One(prefix \o k), EmptyBag, compare(h, h[v.v], EmptyNode, sub).removed)
        ELSE IF IsNode(vNew)
        THEN Lists(One(prefix \o k), compare(h, EmptyNode, h[vNew.v], sub).added, EmptyBag)
        ELSE IF equalValue(h, v, vNew) THEN Lists(One(prefix \o k), EmptyBag, EmptyBag)
        ELSE NoLists

\* compareFound handing the recursion the prefix without the key.
compareFoundPrefix(h, v, vNew, prefix, k) ==
    LET sub == prefix
    IN  IF IsNode(v) /\ IsNode(vNew) THEN compare(h, h[v.v], h[vNew.v], sub)
        ELSE IF IsNode(v)
        THEN Lists(One(prefix \o k), EmptyBag, compare(h, h[v.v], EmptyNode, sub).removed)
        ELSE IF IsNode(vNew)
        THEN Lists(One(prefix \o k), compare(h, EmptyNode, h[vNew.v], sub).added, EmptyBag)
        ELSE IF ~equalValue(h, v, vNew) THEN Lists(One(prefix \o k), EmptyBag, EmptyBag)
        ELSE NoLists

\* compareFound without the walk over the Node that a value replaced.
compareFoundShallow(h, v, vNew, prefix, k) ==
    LET sub == prefix \o k \o <<PathSeparator>>
    IN  IF IsNode(v) /\ IsNode(vNew) THEN compare(h, h[v.v], h[vNew.v], sub)
        ELSE IF IsNode(v)
        THEN Lists(One(prefix \o k), EmptyBag, EmptyBag)
        ELSE IF IsNode(vNew)
        THEN Lists(One(prefix \o k), compare(h, EmptyNode, h[vNew.v], sub).added, EmptyBag)
        ELSE IF ~equalValue(h, v, vNew) THEN Lists(One(prefix \o k), EmptyBag, EmptyBag)
        ELSE NoLists

\* The key k is in both maps with the values v and vNew.
compareFound(h, v, vNew, prefix, k) ==
    LET sub == prefix \o k \o <<PathSeparator>>
    IN  IF IsNode(v) /\ IsNode(vNew) THEN compare(h, h[v.v], h[vNew.v], sub)
        ELSE IF IsNode(v)
        THEN Lists(One(prefix \o k), EmptyBag, compare(h, h[v.v], EmptyNode, sub).removed)
        ELSE IF IsNode(vNew)
        THEN Lists(One(prefix \o k), compare(h, EmptyNode, h[vNew.v], sub).added, EmptyBag)
        ELSE IF ~equalValue(h, v, vNew) THEN Lists(One(prefix \o k), EmptyBag, EmptyBag)
        ELSE NoLists

\* The first loop of compare, over the keys of n still to visit.
compareOld(h, n, new, prefix, todo) ==
    IF todo = {} THEN NoLists
    ELSE LET k == CHOOSE x \in todo : TRUE
             v == n[k]
             rest == compareOld(h, n, new, prefix, todo \ {k})
         IN  IF k \in DOMAIN new
             THEN AppendLists(rest, compareFound(h, v, new[k], prefix, k))
             ELSE AppendLists(rest,
                      Lists(EmptyBag, EmptyBag,
                            One(prefix \o k) (+)
                            (IF IsNode(v)
                             THEN compare(h, h[v.v], EmptyNode,
                                          prefix \o k \o <<PathSeparator>>).removed
                             ELSE EmptyBag)))

\* The second loop of compare, over the keys of new still to visit.
compareNew(h, n, new, prefix, todo) ==
    IF todo = {} THEN NoLists
    ELSE LET k == CHOOSE x \in todo : TRUE
             vNew == new[k]
             rest == compareNew(h, n, new, prefix, todo \ {k})
         IN  IF k \notin DOMAIN n
             THEN AppendLists(rest,
                      Lists(EmptyBag,
                            One(prefix \o k) (+)
                            (IF IsNode(vNew)
                             THEN compare(h, EmptyNode, h[vNew.v],
                                          prefix \o k \o <<PathSeparator>>).added
                             ELSE EmptyBag),
                            EmptyBag))
             ELSE rest

\* n and new are the two maps.
compare(h, n, new, prefix) ==
    AppendLists(compareOld(h, n, new, prefix, DOMAIN n),
                compareNew(h, n, new, prefix, DOMAIN new))

Compare(h, n, new) == compare(h, h[n], h[new], <<>>)

----------------------------------------------------------------------------
(* Merge *)

\* The keys of map m in the iteration order ord.
Range(m, ord) == SelectSeq(ord, LAMBDA k : k \in DOMAIN m)

RECURSIVE Merge(_, _, _, _), mergeKey(_, _, _, _, _), mergeLoop(_, _, _, _, _)

\* mergeKey writing the new element even where both elements are Nodes.
mergeKeyOverwrite(h, n, k, vNew, ord) == [h EXCEPT ![n] = Put(@, k, vNew)]

\* One iteration of the loop of Merge: the key k of new, whose value is vNew.
mergeKey(h, n, k, vNew, ord) ==
    IF k \in DOMAIN h[n]
    THEN LET v == h[n][k]
         IN  IF IsNode(v) /\ IsNode(vNew)
             THEN Merge(h, v.v, vNew.v, ord)
             ELSE [h EXCEPT ![n] = Put(@, k, vNew)]
    ELSE [h EXCEPT ![n] = Put(@, k, vNew)]

mergeLoop(h, n, new, keys, ord) ==
    IF keys = <<>> THEN h
    ELSE mergeLoop(mergeKey(h, n, Head(keys), h[new][Head(keys)], ord), n, new, Tail(keys), ord)

\* n.Merge(new); ord is the order in which Go happens to iterate over maps.
Merge(h, n, new, ord) == mergeLoop(h, n, new, Range(h[new], ord), ord)

----------------------------------------------------------------------------
(* Check *)

\* fmt.Sprint(i) of a slice index.
Sprint(i) == <<ToString(i)>>

RECURSIVE recursive(_, _, _, _), checkChildren(_, _, _, _, _), checkArray(_, _, _, _, _)
checkChildren(h, m, keys, path, ord) ==
    IF keys = <<>> THEN NoErr
    ELSE LET err == recursive(h, m[Head(keys)], PathJoin(<<path, Head(keys)>>), ord)
         IN  IF err # NoErr THEN err ELSE checkChildren(h, m, Tail(keys), path, ord)
checkArray(h, arr, i, path, ord) ==
    IF i > Len(arr) THEN NoErr
    ELSE LET err == recursive(h, NodeV(arr[i]), PathJoin(<<path, Sprint(i - 1)>>), ord)
         IN  IF err # NoErr THEN err ELSE checkArray(h, arr, i + 1, path, ord)
recursive(h, v, path, ord) ==
    IF v.kind = "Node" THEN checkChildren(h, h[v.v], Range(h[v.v], ord), path, ord)
    ELSE IF v.kind = "[]Node" THEN checkArray(h, v.v, 1, path, ord)
    ELSE IF v.kind \in {"bool", "string", "Number"} THEN NoErr
    ELSE ErrUnexpectedType(path, v.kind, "")

Check(h, n, ord) == recursive(h, NodeV(n), <<>>, ord)

----------------------------------------------------------------------------
(* The trees a program starts from, and the inputs of the calls *)

\* Two trees built directly as map literals: heap[1] is the root of tree
\* "a", heap[2] the root of tree "b", the other maps are their sub-nodes.
InitHeaps ==
    { \* a = {}, b = {}
      << EmptyNode, EmptyNode >>,
      \* a = {a: {b: 1}}, b = {a: 2}
      << (KA :> NodeV(3)), (KA :> NumberV("int64", 2)), (KB :> NumberV("int64", 1)) >>,
      \* a = {a: "s", b: true}, b = {a: {a: 1}, b: {}}
      << (KA :> StringV("s") @@ KB :> BoolV(TRUE)), (KA :> NodeV(3) @@ KB :> NodeV(4)),
         (KA :> NumberV("int64", 1)), EmptyNode >>,
      \* a = {a: {a: 1, cd: "s"}, b: 1.0}, b = {a: {a: {a: true}, b: "s"}, b: 1}
      << (KA :> NodeV(3) @@ KB :> NumberV("float64", 1)),
         (KA :> NodeV(4) @@ KB :> NumberV("int64", 1)),
         (KA :> NumberV("int64", 1) @@ KCD :> StringV("s")),
         (KA :> NodeV(5) @@ KB :> StringV("s")),
         (KA :> BoolV(TRUE)) >>,
      \* a = {a: []bool{true}, b: []Node{{a: true}}},
      \* b = {a: []Node{{b: int(1)}}, b: []Node{{a: true}}}
      << (KA :> ArrayV("[]bool", <<TRUE>>) @@ KB :> ArrayV("[]Node", <<4>>)),
         (KA :> ArrayV("[]Node", <<3>>) @@ KB :> ArrayV("[]Node", <<5>>)),
         (KB :> IntV(1)), (KA :> BoolV(TRUE)), (KA :> BoolV(TRUE)) >>,
      \* a = {a: {b: {a: "s"}}, cd: []string{"s"}}, b = {a: {b: nil}}
      << (KA :> NodeV(3) @@ KCD :> ArrayV("[]string", <<"s">>)), (KA :> NodeV(5)),
         (KB :> NodeV(4)), (KA :> StringV("s")), (KB :> NilV) >> }

Roots == {"a", "b"}
Root(r) == IF r = "a" THEN 1 ELSE 2

\* What a caller hands to Set.  A Node or []Node argument is a map (or
\* maps) the caller has just built; the other arguments are plain values.
SetInputs ==
    { BoolV(FALSE), StringV("t"), IntV(3), FloatV(3),
      [kind |-> "Node", v |-> EmptyNode],
      [kind |-> "[]Node", v |-> <<(KA :> BoolV(TRUE))>>],
      ArrayV("[]bool", <<TRUE>>), ArrayV("[]Number", <<NumberV("float64", 3)>>),
      NumberV("int64", 3), NilV }

\* The heap once the caller has built the argument.
Built(h, input) ==
    IF input.kind = "Node" THEN Append(h, input.v)
    ELSE IF input.kind = "[]Node" THEN h \o input.v
    ELSE h

\* The argument itself.
Argument(h, input) ==
    IF input.kind = "Node" THEN NodeV(Len(h) + 1)
    ELSE IF input.kind = "[]Node"
         THEN ArrayV("[]Node", [i \in 1..Len(input.v) |-> Len(h) + i])
         ELSE input

RECURSIVE Orders(_)
\* Every order in which a map with the keys S can be iterated.
Orders(S) ==
    IF S = {} THEN {<<>>}
    ELSE UNION {{<<k>> \o o : o \in Orders(S \ {k})} : k \in S}

Call(name, root, other, path, elem, ret, err) ==
    [name |-> name, root |-> root, other |-> other, path |-> path,
     elem |-> elem, ret |-> ret, err |-> err]

----------------------------------------------------------------------------
(* The state machine *)

Init ==
    /\ heap \in InitHeaps
    /\ old = heap
    /\ op = Call("new", "a", "a", <<>>, NilV, NilV, NoErr)
    /\ steps = 0

DoCreatePath(r, path) ==
    /\ steps < MaxSteps
    /\ LET res == CreatePath(heap, Root(r), path)
       IN  /\ heap' = res.heap
           /\ op' = Call("CreatePath", r, r, path, NilV, NodeV(res.node), NoErr)
    /\ old' = heap
    /\ steps' = steps + 1

DoSet(r, path, input) ==
    /\ steps < MaxSteps
    /\ LET before == Built(heap, input)
           element == Argument(heap, input)
           res == Set(before, Root(r), path, element)
       IN  /\ heap' = res.heap
           /\ old' = before
           /\ op' = Call("Set", r, r, path, element, NilV, res.err)
    /\ steps' = steps + 1

DoGetOrError(r, path) ==
    /\ steps < MaxSteps
    /\ LET res == GetOrError(heap, Root(r), path)
       IN  op' = Call("GetOrError", r, r, path, NilV, res.val, res.err)
    /\ old' = heap
    /\ steps' = steps + 1
    /\ UNCHANGED heap

DoMerge(r, new, ord) ==
    /\ steps < MaxSteps
    /\ heap' = Merge(heap, Root(r), Root(new), ord)
    /\ op' = Call("Merge", r, new, <<>>, NilV, NilV, NoErr)
    /\ old' = heap
    /\ steps' = steps + 1

DoCompare(r, new) ==
    /\ steps < MaxSteps
    /\ op' = Call("Compare", r, new, <<>>, NilV, Compare(heap, Root(r), Root(new)), NoErr)
    /\ old' = heap
    /\ steps' = steps + 1
    /\ UNCHANGED heap

DoCheck(r, ord) ==
    /\ steps < MaxSteps
    /\ op' = Call("Check", r, r, <<>>, NilV, NilV, Check(heap, Root(r), ord))
    /\ old' = heap
    /\ steps' = steps + 1
    /\ UNCHANGED heap

Next ==
    \/ \E r \in Roots, path \in WritePaths : DoCreatePath(r, path)
    \/ \E r \in Roots, path \in WritePaths, input \in SetInputs : DoSet(r, path, input)
    \/ \E r \in Roots, path \in ReadPaths : DoGetOrError(r, path)
    \/ \E r \in Roots, new \in Roots, ord \in Orders(Keys(heap)) : r # new /\ DoMerge(r, new, ord)
    \/ \E r \in Roots, new \in Roots : DoCompare(r, new)
    \/ \E r \in Roots, ord \in Orders(Keys(heap)) : DoCheck(r, ord)

Spec == Init /\ [][Next]_vars

----------------------------------------------------------------------------
(* Tree positions, used to state the properties *)

RECURSIVE Positions(_, _)
\* The key sequences that lead from node id to an element, through Nodes.
Positions(h, id) ==
    {<<>>} \cup
    UNION {{<<k>> \o q : q \in (IF IsNode(h[id][k]) THEN Positions(h, h[id][k].v) ELSE {<<>>})}
           : k \in DOMAIN h[id]}

RECURSIVE At(_, _, _)
\* The element at position ks below the element v.
At(h, v, ks) == IF ks = <<>> THEN v ELSE At(h, h[v.v][Head(ks)], Tail(ks))

Prefix(segs, i) == SubSeq(segs, 1, i)

\* Position ks of tree n holds a Node.
NodeAt(h, n, ks) == ks \in Positions(h, n) /\ IsNode(At(h, NodeV(n), ks))

----------------------------------------------------------------------------
(* Set and GetOrError *)

\* What the type switch of Set accepts: a Node, a bool, a string, a numeric
\* primitive, or an array of Node, bool, string or Number.
Supported(e) ==
    e.kind \in {"Node", "bool", "string", "int", "float64",
                "[]Node", "[]bool", "[]string", "[]Number"}

\* C1 as stated: Set(p, v) with a supported v returns no error and
\* GetOrError(p) then returns v itself.
RoundTripUnchanged ==
    op.name = "Set" /\ Supported(op.elem) =>
        /\ op.err = NoErr
        /\ GetOrError(heap, Root(op.root), op.path) = [val |-> op.elem, err |-> NoErr]

\* C1 amended: Set(p, v) with a supported v returns no error and
\* GetOrError(p) then returns v itself when v is a Node, a bool, a string or
\* an array, and the Number holding v's value when v is a numeric primitive.
RoundTrip ==
    op.name = "Set" /\ Supported(op.elem) =>
        LET got == GetOrError(heap, Root(op.root), op.path)
        IN  /\ op.err = NoErr
            /\ got.err = NoErr
            /\ IF op.elem.kind \in {"int", "float64"}
               THEN /\ got.val.kind = "Number"
                    /\ got.val.v[2] = op.elem.v
                    /\ got.val.v[1] = (IF op.elem.kind = "int" THEN "int64" ELSE "float64")
               ELSE got.val = op.elem

\* A Set of a number at "a.b" where "a" held a value that was no Node.
RoundTripWitness ==
    /\ op.name = "Set" /\ op.elem.kind = "int" /\ op.err = NoErr
    /\ Len(PathSplit(op.path)) = 2
    /\ <<PathSplit(op.path)[1]>> \in Positions(old, Root(op.root))
    /\ ~NodeAt(old, Root(op.root), <<PathSplit(op.path)[1]>>)

\* C5: GetOrError fails with ErrPathInsideValue when the first segment that
\* does not resolve is looked up in an element that is no Node, with
\* ErrElementNotFound when it is a key missing from a Node, and otherwise
\* returns the element at the last segment.
GetErrorClass ==
    op.name = "GetOrError" =>
        LET n == Root(op.root)
            segs == PathSplit(op.path)
            resolved == {i \in 0..Len(segs) : Prefix(segs, i) \in Positions(heap, n)}
            last == CHOOSE i \in resolved : \A j \in resolved : j <= i
        IN  IF last = Len(segs)
            THEN op.err = NoErr /\ op.ret = At(heap, NodeV(n), segs)
            ELSE IF IsNode(At(heap, NodeV(n), Prefix(segs, last)))
                 THEN op.err = ErrElementNotFound(op.path)
                 ELSE op.err = ErrPathInsideValue(op.path)

\* GetOrError("a.b.a") after Set("a.b", 3): "a.b" holds the Number 3.
GetErrorClassWitness ==
    /\ op.name = "GetOrError" /\ op.err.type = "ErrPathInsideValue"
    /\ Len(PathSplit(op.path)) = 3
    /\ Prefix(PathSplit(op.path), 2) \in Positions(heap, Root(op.root))
    /\ At(heap, NodeV(Root(op.root)), Prefix(PathSplit(op.path), 2)) = NumberV("int64", 3)

\* C7: Set with an element that is neither a legal element kind nor a
\* numeric primitive returns ErrUnexpectedType, and a Set that returns an
\* error leaves the trees as they were: no Node created, no value replaced.
SetValidatesFirst ==
    /\ op.name = "Set" /\ ~Supported(op.elem) /\ op.elem.kind # "Number" =>
           op.err.type = "ErrUnexpectedType"
    /\ op.name = "Set" /\ op.err # NoErr => heap = old

\* Set("a.b", nil) on a tree without a Node at "a".
SetValidatesFirstWitness ==
    /\ op.name = "Set" /\ op.elem.kind = "nil"
    /\ Len(PathSplit(op.path)) = 2
    /\ ~NodeAt(old, Root(op.root), <<PathSplit(op.path)[1]>>)

----------------------------------------------------------------------------
(* CreatePath *)

\* C8: a second CreatePath(p) returns the Node of the first and changes
\* nothing; the first one succeeds, keeps every Node on the path with its
\* other children, and puts a new Node, empty but for the next segment,
\* wherever the path met no Node.
CreatePathIdempotent ==
    op.name = "CreatePath" =>
        LET n == Root(op.root)
            segs == PathSplit(op.path)
            again == CreatePath(heap, n, op.path)
            next(i) == IF i < Len(segs) THEN {segs[i + 1]} ELSE {}
            onPath == {At(heap, NodeV(n), Prefix(segs, i)).v : i \in 0..Len(segs)}
        IN  /\ op.err = NoErr
            /\ again.heap = heap /\ NodeV(again.node) = op.ret
            /\ \A i \in 0..Len(segs) : NodeAt(heap, n, Prefix(segs, i))
            /\ At(heap, NodeV(n), segs) = op.ret
            /\ \A i \in 0..Len(segs) :
                   LET now == At(heap, NodeV(n), Prefix(segs, i)).v
                   IN  IF NodeAt(old, n, Prefix(segs, i))
                       THEN /\ now = At(old, NodeV(n), Prefix(segs, i)).v
                            /\ DOMAIN heap[now] = DOMAIN old[now] \cup next(i)
                            /\ \A k \in DOMAIN old[now] \ next(i) : heap[now][k] = old[now][k]
                       ELSE /\ now > Len(old)
                            /\ DOMAIN heap[now] = next(i)
            /\ \A j \in 1..Len(old) : j \notin onPath => heap[j] = old[j]

\* CreatePath("a.b") where "a" was a Node with another child and "a.b" a value.
CreatePathWitness ==
    /\ op.name = "CreatePath" /\ Len(PathSplit(op.path)) = 2
    /\ LET n == Root(op.root)
           segs == PathSplit(op.path)
       IN  /\ NodeAt(old, n, Prefix(segs, 1))
           /\ segs \in Positions(old, n)
           /\ ~IsNode(At(old, NodeV(n), segs))
           /\ DOMAIN old[At(old, NodeV(n), Prefix(segs, 1)).v] # {segs[2]}

----------------------------------------------------------------------------
(* Merge *)

RECURSIVE Content(_, _)
\* The element v with every Node replaced by what it holds.
Content(h, v) ==
    IF v.kind = "Node"
    THEN [kind |-> "Node", v |-> [k \in DOMAIN h[v.v] |-> Content(h, h[v.v][k])]]
    ELSE IF v.kind = "[]Node"
         THEN [kind |-> "[]Node", v |-> [i \in 1..Len(v.v) |-> Content(h, NodeV(v.v[i]))]]
         ELSE v

RECURSIVE Merged(_, _, _, _)
\* Node t of heap hNew is the merge of node s into node t of heap hOld.
Merged(hOld, hNew, t, s) ==
    /\ DOMAIN hNew[t] = DOMAIN hOld[t] \cup DOMAIN hOld[s]
    /\ \A k \in DOMAIN hOld[t] \ DOMAIN hOld[s] :
           Content(hNew, hNew[t][k]) = Content(hOld, hOld[t][k])
    /\ \A k \in DOMAIN hOld[s] \ DOMAIN hOld[t] :
           Content(hNew, hNew[t][k]) = Content(hOld, hOld[s][k])
    /\ \A k \in DOMAIN hOld[s] \cap DOMAIN hOld[t] :
           IF IsNode(hOld[t][k]) /\ IsNode(hOld[s][k])
           THEN /\ IsNode(hNew[t][k])
                /\ Merged(hOld, hNew, hOld[t][k].v, hOld[s][k].v)
                /\ hNew[t][k] = hOld[t][k]
           ELSE Content(hNew, hNew[t][k]) = Content(hOld, hOld[s][k])

\* C2: after target.Merge(source), at every level a key only in target keeps
\* its value, a key only in source has source's value, a key that is a Node
\* in both holds the merge of the two Nodes, and any other key in both has
\* source's value.
MergeCorrect ==
    op.name = "Merge" => Merged(old, heap, Root(op.root), Root(op.other))

\* A Merge that meets, below a key that is a Node in both trees, a key only
\* in target, a key only in source and a value that a Node replaces.
MergeWitness ==
    /\ op.name = "Merge"
    /\ \E k \in DOMAIN old[Root(op.root)] \cap DOMAIN old[Root(op.other)] :
           LET x == old[Root(op.root)][k]
               y == old[Root(op.other)][k]
           IN  /\ IsNode(x) /\ IsNode(y)
               /\ DOMAIN old[x.v] \ DOMAIN old[y.v] # {}
               /\ DOMAIN old[y.v] \ DOMAIN old[x.v] # {}
               /\ \E j \in DOMAIN old[x.v] \cap DOMAIN old[y.v] :
                      ~IsNode(old[x.v][j]) /\ IsNode(old[y.v][j])

RECURSIVE Reachable(_, _)
\* The maps of heap h reachable from the maps ids.
Reachable(h, ids) ==
    LET inside(v) == IF v.kind = "Node" THEN {v.v}
                     ELSE IF v.kind = "[]Node" THEN {v.v[i] : i \in 1..Len(v.v)}
                     ELSE {}
        more == ids \cup UNION {UNION {inside(h[j][k]) : k \in DOMAIN h[j]} : j \in ids}
    IN  IF more = ids THEN ids ELSE Reachable(h, more)

\* The Nodes stored under key k of map j.
Stored(h, j, k) ==
    IF h[j][k].kind = "Node" THEN {h[j][k].v}
    ELSE IF h[j][k].kind = "[]Node" THEN {h[j][k].v[i] : i \in 1..Len(h[j][k].v)}
    ELSE {}

\* No map is stored at two places of the trees a and b.
NoSharedNode(h) ==
    LET live == Reachable(h, {Root("a"), Root("b")})
        slots == {<<j, k>> : j \in live, k \in UNION {DOMAIN h[i] : i \in live}}
        used == {sl \in slots : sl[2] \in DOMAIN h[sl[1]]}
    IN  \A s1, s2 \in used :
            s1 # s2 => Stored(h, s1[1], s1[2]) \cap Stored(h, s2[1], s2[2]) = {}

\* What GetOrError(path) on tree r returns, Nodes taken by what they hold.
Seen(h, r, path) ==
    LET res == GetOrError(h, Root(r), path)
    IN  [val |-> Content(h, res.val), err |-> res.err]

\* C6: no Node is stored at two tree positions, and a Set or CreatePath on
\* one tree changes nothing GetOrError returns on the other tree.
OwnershipTree ==
    /\ NoSharedNode(heap)
    /\ op.name \in {"Set", "CreatePath"} =>
           \A r \in Roots \ {op.root}, path \in ReadPaths :
               Seen(heap, r, path) = Seen(old, r, path)

----------------------------------------------------------------------------
(* Check *)

RECURSIVE Legal(_, _)
\* The element v, and every element below it, is of a legal kind.
Legal(h, v) ==
    IF v.kind = "Node" THEN \A k \in DOMAIN h[v.v] : Legal(h, h[v.v][k])
    ELSE IF v.kind = "[]Node" THEN \A i \in 1..Len(v.v) : Legal(h, NodeV(v.v[i]))
    ELSE v.kind \in {"bool", "string", "Number", "[]bool", "[]string", "[]Number"}

\* C4: Check returns nil exactly when every element reachable from the root
\* is a Node, a bool, a string, a Number or an array of these.
CheckIffLegal ==
    op.name = "Check" => (op.err = NoErr <=> Legal(heap, NodeV(Root(op.root))))

----------------------------------------------------------------------------
(* Compare *)

ValidKey(k) == k # <<>> /\ \A i \in 1..Len(k) : k[i] # PathSeparator

\* Every key of tree r is a segment name.
ValidTree(h, r) ==
    \A ks \in Positions(h, Root(r)) : \A i \in 1..Len(ks) : ValidKey(ks[i])

Disjoint(b1, b2) == BagToSet(b1) \cap BagToSet(b2) = {}

\* C3: the three lists of a.Compare(b) are pairwise disjoint, every removed
\* path resolves in a and every added path resolves in b.
DiffConsistent ==
    op.name = "Compare" /\ ValidTree(heap, op.root) /\ ValidTree(heap, op.other) =>
        /\ Disjoint(op.ret.modified, op.ret.added)
        /\ Disjoint(op.ret.modified, op.ret.removed)
        /\ Disjoint(op.ret.added, op.ret.removed)
        /\ \A path \in BagToSet(op.ret.removed) :
               GetOrError(heap, Root(op.root), path).err = NoErr
        /\ \A path \in BagToSet(op.ret.added) :
               GetOrError(heap, Root(op.other), path).err = NoErr

\* A Compare with a path of two segments removed and a path added.
DiffWitness ==
    /\ op.name = "Compare"
    /\ op.ret.modified # EmptyBag
    /\ op.ret.added # EmptyBag
    /\ \E path \in BagToSet(op.ret.removed) : Len(PathSplit(path)) > 1

\* C9: a.Compare(a) returns three empty lists.
DiffReflexive ==
    op.name = "Compare" /\ op.root = op.other => op.ret = NoLists

\* A Compare of a tree with itself, the tree holding a Node, an array of
\* Nodes and a Number.
DiffReflexiveWitness ==
    /\ op.name = "Compare" /\ op.root = op.other
    /\ \E k \in DOMAIN heap[Root(op.root)] : heap[Root(op.root)][k].kind = "[]Node"
    /\ \E ks \in Positions(heap, Root(op.root)) :
           Len(ks) > 1 /\ At(heap, NodeV(Root(op.root)), ks).kind = "Number"

IsUnder(q, path) ==
    Len(q) > Len(path) /\ SubSeq(q, 1, Len(path) + 1) = path \o <<PathSeparator>>

\* C10: where a key is in both trees and exactly one value is a Node, its
\* path is once in modified, the paths below the Node are in removed (Node in
\* the old tree) or in added (Node in the new tree), and the lists hold no
\* other path below it.
KindMismatch ==
    op.name = "Compare" =>
        \A ks \in (Positions(heap, Root(op.root)) \cap Positions(heap, Root(op.other))) \ {<<>>} :
            LET x == At(heap, NodeV(Root(op.root)), ks)
                y == At(heap, NodeV(Root(op.other)), ks)
                path == PathJoin(ks)
                below(v) == {PathJoin(ks \o q) : q \in Positions(heap, v.v) \ {<<>>}}
                under(bag) == {q \in BagToSet(bag) : IsUnder(q, path)}
            IN  IsNode(x) # IsNode(y) =>
                    /\ CopiesIn(path, op.ret.modified) = 1
                    /\ under(op.ret.modified) = {}
                    /\ \A q \in under(op.ret.removed) \cup under(op.ret.added) :
                           CopiesIn(q, op.ret.removed (+) op.ret.added) = 1
                    /\ IF IsNode(x)
                       THEN under(op.ret.removed) = below(x) /\ under(op.ret.added) = {}
                       ELSE under(op.ret.added) = below(y) /\ under(op.ret.removed) = {}

\* a = {a: {b: 1}}, b = {a: 2}: modified = ["a"], removed = ["a.b"], added = [].
KindMismatchWitness ==
    /\ op.name = "Compare"
    /\ op.ret = Lists(One(PathJoin(<<KA>>)), EmptyBag, One(PathJoin(<<KA, KB>>)))
    /\ IsNode(heap[Root(op.root)][KA]) /\ ~IsNode(heap[Root(op.other)][KA])

====
